---- MODULE Spec2Model ----
(***************************************************************************)
(* A model of the recursive path tracer of PathTracing.h: the basis        *)
(* construction, reflect and refract, the integrator castRay (as a small-  *)
(* step machine over an explicit call stack, and as a big-step evaluator)  *)
(* and the frame renderer render.                                          *)
(*                                                                         *)
(* Numbers.  Every quantity is exact.  Vectors are integer triples; a      *)
(* vector that the code divides by a square root is kept as a pair         *)
(* [v, q] standing for v / sqrt(q).  One colour channel is modelled (the   *)
(* three channels of a Vec3f are computed alike and independently); a      *)
(* colour is a polynomial in U = 2*pi / (GenRange * NSamples), kept as the *)
(* sequence of its integer coefficients, because a diffuse bounce          *)
(* multiplies by r1 / pdf = (a / GenRange) * 2*pi = a * NSamples * U with  *)
(* a an integer, and then divides by NSamples.                             *)
(***************************************************************************)
EXTENDS Integers, Sequences, FiniteSets, TLC

(***************************************************************************)
(* Integer helpers                                                         *)
(***************************************************************************)
Abs(x) == IF x < 0 THEN -x ELSE x

Min(a, b) == IF a < b THEN a ELSE b

Max(a, b) == IF a > b THEN a ELSE b

\* sqrtf on the perfect squares the model meets (the floor elsewhere)
ISqrt(n) == CHOOSE r \in 0..n : r * r <= n /\ (r + 1) * (r + 1) > n

RECURSIVE Pow(_, _)
\* pow(b, e) for a natural exponent; pow(x, 0) = 1 for every x, as in C
Pow(b, e) == IF e = 0 THEN 1 ELSE b * Pow(b, e - 1)

(***************************************************************************)
(* Vec3f (Geometry.h): integer triples                                     *)
(***************************************************************************)
Vec3(x, y, z) == <<x, y, z>>

Zero == Vec3(0, 0, 0)

VAdd(a, b) == Vec3(a[1] + b[1], a[2] + b[2], a[3] + b[3])

VScale(k, a) == Vec3(k * a[1], k * a[2], k * a[3])

VNeg(a) == VScale(-1, a)

\* exact on the vectors it is applied to (every component a multiple of k)
VDiv(a, k) == Vec3(a[1] \div k, a[2] \div k, a[3] \div k)

dotProduct(a, b) == a[1] * b[1] + a[2] * b[2] + a[3] * b[3]

crossProduct(a, b) ==
    Vec3(a[2] * b[3] - a[3] * b[2],
         a[3] * b[1] - a[1] * b[3],
         a[1] * b[2] - a[2] * b[1])

\* Vec3f::normalize: scales by 1/length when the length is positive and
\* leaves the zero vector as it is
normalize(a) ==
    LET n == dotProduct(a, a)
    IN  IF n > 0 THEN VDiv(a, ISqrt(n)) ELSE a

\* the six unit vectors along the axes
AxisDirs ==
    { Vec3(1, 0, 0), Vec3(-1, 0, 0), Vec3(0, 1, 0),
      Vec3(0, -1, 0), Vec3(0, 0, 1), Vec3(0, 0, -1) }

(***************************************************************************)
(* Scaled vectors [v, q] = v / sqrt(q).  q = 0 records a division by a     *)
(* zero square root.                                                       *)
(***************************************************************************)
SVec(v, q) == [v |-> v, q |-> q]

\* the unit vector along the integer direction w (w # Zero)
UnitOf(w) == SVec(w, dotProduct(w, w))

\* N.crossProduct(Nt) for scaled vectors
SCross(a, b) == SVec(crossProduct(a.v, b.v), a.q * b.q)

\* the squared length is 1
SIsUnit(a) == a.q > 0 /\ dotProduct(a.v, a.v) = a.q

\* the dot product is 0
SOrthogonal(a, b) == a.q > 0 /\ b.q > 0 /\ dotProduct(a.v, b.v) = 0

\* a and b are the same vector: both positive multiples of one direction,
\* with equal squared length
SEqual(a, b) ==
    /\ a.q > 0 /\ b.q > 0
    /\ crossProduct(a.v, b.v) = Zero
    /\ dotProduct(a.v, b.v) * dotProduct(a.v, b.v) =
           dotProduct(a.v, a.v) * dotProduct(b.v, b.v)
    /\ dotProduct(a.v, b.v) >= 0
    /\ dotProduct(a.v, a.v) * b.q = dotProduct(b.v, b.v) * a.q

\* the scaled vector as an integer vector, when it is one (q is a perfect
\* square dividing the components); a vector divided by zero stays as it is
SToVec(a) == IF a.q > 0 THEN VDiv(a.v, ISqrt(a.q)) ELSE a.v

(***************************************************************************)
(* createCoordinateSystem                                                  *)
(***************************************************************************)
\* N.x*N.x + N.z*N.z and N.y*N.y + N.z*N.z, as rationals num / den
DenomX(N) == [num |-> N.v[1] * N.v[1] + N.v[3] * N.v[3], den |-> N.q]

DenomY(N) == [num |-> N.v[2] * N.v[2] + N.v[3] * N.v[3], den |-> N.q]

\* the comparison turned round: the branch that divides by
\* sqrtf(N.x*N.x + N.z*N.z) taken when |N.x| is the smaller
BasisBranchXTurned(N) == Abs(N.v[1]) < Abs(N.v[2])

\* fabs(N.x) > fabs(N.y): both components carry the same factor 1/sqrt(q)
BasisBranchX(N) == Abs(N.v[1]) > Abs(N.v[2])

\* the argument of the sqrtf the selected branch divides by
BasisDenominator(N) == IF BasisBranchX(N) THEN DenomX(N) ELSE DenomY(N)

\* (w / sqrt(N.q)) / sqrtf(d.num / d.den)  =  w / sqrt(N.q * d.num / d.den)
SDivSqrt(w, N, d) == SVec(w, (N.q * d.num) \div d.den)

createCoordinateSystem(N) ==
    LET Nt == IF BasisBranchX(N)
              THEN SDivSqrt(Vec3(N.v[3], 0, -N.v[1]), N, DenomX(N))
              ELSE SDivSqrt(Vec3(0, -N.v[3], N.v[2]), N, DenomY(N))
    IN  [Nt |-> Nt, Nb |-> SCross(N, Nt)]

(***************************************************************************)
(* reflect, refract                                                        *)
(***************************************************************************)
reflect(I, N) == VAdd(I, VScale(-2 * dotProduct(I, N), N))

\* cosi = min(max(-1, I.N), 1)
RefractCosi(I, N) == Min(Max(-1, dotProduct(I, N)), 1)

\* the branch on cosi < 0: |cosi|, etai, etat and n.  ior is an integer,
\* so eta = etai / etat is kept as the pair.
RefractSetup(I, N, ior) ==
    LET cosi == RefractCosi(I, N)
    IN  IF cosi < 0
        THEN [cosi |-> -cosi, etai |-> 1, etat |-> ior, n |-> N]
        ELSE [cosi |-> cosi, etai |-> ior, etat |-> 1, n |-> VNeg(N)]

\* k * etat^2, where k = 1 - eta*eta*(1 - cosi*cosi): it has the sign of k
RefractK(I, N, ior) ==
    LET s == RefractSetup(I, N, ior)
    IN  s.etat * s.etat - s.etai * s.etai * (1 - s.cosi * s.cosi)

\* a refract that answers total internal reflection with the mirror
\* direction rather than with the zero vector
refractMirrored(I, N, ior) ==
    LET s == RefractSetup(I, N, ior)
        k == RefractK(I, N, ior)
    IN  IF k < 0
        THEN reflect(I, N)
        ELSE VDiv(VAdd(VScale(s.etai, I),
                       VScale(s.etai * s.cosi - ISqrt(k), s.n)),
                  s.etat)

\* k < 0 ? 0 : eta*I + (eta*cosi - sqrtf(k))*n, with eta = etai/etat and
\* sqrtf(k) = sqrt(k * etat^2) / etat
refract(I, N, ior) ==
    LET s == RefractSetup(I, N, ior)
        k == RefractK(I, N, ior)
    IN  IF k < 0
        THEN Zero
        ELSE VDiv(VAdd(VScale(s.etai, I),
                       VScale(s.etai * s.cosi - ISqrt(k), s.n)),
                  s.etat)

(***************************************************************************)
(* The random source: default_random_engine is a multiplicative            *)
(* congruential engine (x' = GenMul * x mod GenMod, seeded GenSeed) and    *)
(* uniform_real_distribution(0, 1) maps its output x to                    *)
(* (x - 1) / (GenMod - 1), a number in [0, 1).  The engine is scaled down; *)
(* a draw is kept as its numerator a, the value being a / GenRange.        *)
(***************************************************************************)
GenSeed == 1

GenMul == 3

GenMod == 7

GenRange == GenMod - 1

\* generator(): the engine's next state
EngineNext(g) == (GenMul * g) % GenMod

\* distribution(generator): the numerator drawn and the engine's new state
Draw(g) == [a |-> EngineNext(g) - 1, gen |-> EngineNext(g)]

(***************************************************************************)
(* uniformSampleHemisphere: the sample (sinTheta*cos(phi), r1,             *)
(* sinTheta*sin(phi)) with r1 = a/GenRange, phi = 2*pi*b/GenRange, kept at *)
(* the resolution of the integer lattice: the axis its largest component   *)
(* lies on (y when r1 >= sinTheta, else +-x or +-z by the octant of phi).  *)
(***************************************************************************)
uniformSampleHemisphere(a, b) ==
    IF 2 * a * a >= GenRange * GenRange THEN Vec3(0, 1, 0)
    ELSE IF 8 * b <= GenRange \/ 8 * b >= 7 * GenRange THEN Vec3(1, 0, 0)
    ELSE IF 8 * b < 3 * GenRange THEN Vec3(0, 0, 1)
    ELSE IF 8 * b <= 5 * GenRange THEN Vec3(-1, 0, 0)
    ELSE Vec3(0, 0, -1)

\* createCoordinateSystem(hitNormal, Nt, Nb) for the normals of the
\* scenes, which lie along the axes
LocalFrame ==
    [N \in AxisDirs |->
        [Nt |-> SToVec(createCoordinateSystem(UnitOf(N)).Nt),
         Nb |-> SToVec(createCoordinateSystem(UnitOf(N)).Nb)]]

\* sampleWorld: the sample carried from the local frame (Nb, N, Nt) to the
\* world
SampleWorld(sample, hitNormal) ==
    VAdd(VAdd(VScale(sample[1], LocalFrame[hitNormal].Nb),
              VScale(sample[2], hitNormal)),
         VScale(sample[3], LocalFrame[hitNormal].Nt))

(***************************************************************************)
(* Inputs: the values options.maxDepth takes, and the image sizes          *)
(***************************************************************************)
MaxDepths == {-1, 0, 1}

MaxWidth == 2

MaxHeight == 2

\* the sample count N of the diffuse loop
NSamples == 128

MaxOf(S) == CHOOSE x \in S : \A y \in S : y <= x

(***************************************************************************)
(* Colours: the coefficients of 1, U, U^2, ... (one more than the deepest  *)
(* chain of diffuse bounces)                                               *)
(***************************************************************************)
Deg == MaxOf(MaxDepths) + 1

\* the coefficients f[1], ..., f[n] as an explicit sequence
Coefficients(f, n) == SubSeq(f, 1, n)

CConst(x) == Coefficients([k \in 1..(Deg + 1) |-> IF k = 1 THEN x ELSE 0],
                          Deg + 1)

CZero == CConst(0)

CAdd(c, d) == Coefficients([k \in 1..(Deg + 1) |-> c[k] + d[k]], Deg + 1)

CScale(x, c) == Coefficients([k \in 1..(Deg + 1) |-> x * c[k]], Deg + 1)

\* c * U
CMulU(c) ==
    Coefficients([k \in 1..(Deg + 1) |-> IF k = 1 THEN 0 ELSE c[k - 1]],
                 Deg + 1)

\* c / x, exact when x divides every coefficient
CDiv(c, x) == Coefficients([k \in 1..(Deg + 1) |-> c[k] \div x], Deg + 1)

(***************************************************************************)
(* Materials, objects and scenes (Geometry.h, FileLoader.h).  A scene is a *)
(* finite world: its objects, the object the primary ray of a pixel hits   *)
(* (by the parity of i + j) and the object a ray leaving the hit point of  *)
(* an object in a given direction hits; 0 is no hit.                       *)
(***************************************************************************)
Material(l, d, s, t, ka, kd, ks, ns, tr, ni) ==
    [self_luminous |-> l, diffuse |-> d, specular |-> s, transparent |-> t,
     ka |-> ka, kd |-> kd, ks |-> ks, ns |-> ns, tr |-> tr, ni |-> ni]

Object(normal, Color, m) == [normal |-> normal, Color |-> Color, m |-> m]

Dirs == AxisDirs \cup {Zero}

\* the camera looks along -z
Forward == Vec3(0, 0, -1)

Facing == Vec3(0, 0, 1)

Side == Vec3(1, 0, 0)

Lamp == Object(Facing, 2, Material(TRUE, FALSE, FALSE, FALSE, 3, 0, 0, 0, 0, 1))

\* a light source whose material is diffuse, specular and transparent too
LampAll == Object(Facing, 3, Material(TRUE, TRUE, TRUE, TRUE, 2, 1, 1, 1, 1, 2))

\* one surface with the given flags, a lamp above it
SceneCombo(d, s, t) ==
    [objs |-> << Object(Facing, 1, Material(FALSE, d, s, t, 1, 1, 2, 3, 2, 2)),
                 Lamp >>,
     prim |-> [p \in 0..1 |-> 1],
     next |-> << [v \in Dirs |-> IF v = Facing THEN 2 ELSE 0],
                 [v \in Dirs |-> 0] >>]

SceneEmpty ==
    [objs |-> << >>, prim |-> [p \in 0..1 |-> 0], next |-> << >>]

SceneLamps ==
    [objs |-> << LampAll, Lamp >>,
     prim |-> [p \in 0..1 |-> p + 1],
     next |-> << [v \in Dirs |-> 2], [v \in Dirs |-> 1] >>]

\* every ray, from anywhere, hits the one diffuse, specular and transparent
\* surface
SceneRoom ==
    [objs |-> << Object(Facing, 1,
                        Material(FALSE, TRUE, TRUE, TRUE, 1, 1, 1, 2, 2, 2)) >>,
     prim |-> [p \in 0..1 |-> 1],
     next |-> << [v \in Dirs |-> 1] >>]

\* even pixels see a diffuse wall lit by a lamp, odd pixels see the wall
\* in a mirror
SceneMixed ==
    [objs |-> << Object(Facing, 1,
                        Material(FALSE, TRUE, FALSE, FALSE, 1, 1, 0, 0, 0, 1)),
                 Object(Facing, 1,
                        Material(FALSE, FALSE, TRUE, FALSE, 1, 0, 1, 1, 0, 1)),
                 Lamp >>,
     prim |-> [p \in 0..1 |-> p + 1],
     next |-> << [v \in Dirs |-> IF v = Facing THEN 3 ELSE 0],
                 [v \in Dirs |-> IF v = Facing THEN 1 ELSE 0],
                 [v \in Dirs |-> 0] >>]

\* even pixels graze a pane of glass (the ray runs in the surface: total
\* internal reflection), odd pixels look straight through one; the lamp is
\* what a ray of zero direction, or a transmitted one, hits
SceneGlass ==
    [objs |-> << Object(Side, 1,
                        Material(FALSE, FALSE, FALSE, TRUE, 1, 0, 0, 0, 3, 2)),
                 Object(Facing, 1,
                        Material(FALSE, FALSE, FALSE, TRUE, 1, 0, 0, 0, 3, 2)),
                 Lamp >>,
     prim |-> [p \in 0..1 |-> p + 1],
     next |-> << [v \in Dirs |-> IF v = Zero THEN 3 ELSE 0],
                 [v \in Dirs |-> IF v = Forward THEN 3 ELSE 0],
                 [v \in Dirs |-> 0] >>]

\* Options: width, height, maxDepth, backgroundColor
Options(w, h, md, bg) ==
    [width |-> w, height |-> h, maxDepth |-> md, backgroundColor |-> bg]

Sizes == (1..MaxWidth) \X (1..MaxHeight)

\* the renders checked: every scene at every size and depth limit, the
\* room (whose cost is 131^(maxDepth+1) calls a pixel) on one row
Configs ==
    { [scene |-> sc[1], options |-> Options(sz[1], sz[2], md, sc[2])] :
        sc \in { <<SceneCombo(d, s, t), 2>> : d, s, t \in BOOLEAN }
                 \cup { <<SceneEmpty, 1>>, <<SceneLamps, 1>>,
                        <<SceneMixed, 2>>, <<SceneGlass, 1>> },
        sz \in Sizes, md \in MaxDepths }
    \cup
    { [scene |-> SceneRoom, options |-> Options(w, 1, md, 1)] :
        w \in 1..MaxWidth, md \in MaxDepths }

(***************************************************************************)
(* State                                                                   *)
(***************************************************************************)
VARIABLES
    cfg,        \* the scene and the options of this render (never changes)
    rpc,        \* render: "loop", "call" (inside castRay) or "done"
    ri, rj,     \* render: the loop variables i and j
    pix,        \* render: the pointer pixels, as an index into the buffer
    pixels,     \* the caller's buffer, and one slot past its end
    written,    \* how many times each slot has been written
    stack,      \* the call stack of castRay, innermost call last
    ret,        \* the value the last castRay call returned
    gen,        \* the state of the process-wide generator
    last,       \* the frame of the last castRay call that returned
    genAt,      \* the generator's state when each pixel's castRay started
    primary,    \* the depth-0 calls render has made: <<i, j, depth, orig>>
    steps,      \* the steps render and castRay have taken
    arg,        \* createCoordinateSystem on its own: the normal N
    res         \* createCoordinateSystem on its own: Nt and Nb

vars ==
    << cfg, rpc, ri, rj, pix, pixels, written, stack, ret, gen, last, genAt,
       primary, steps, arg, res >>

options == cfg.options

scene == cfg.scene

\* the slots of the buffer the caller allocated
Slots == 0..(options.width * options.height - 1)

\* the position the camera-to-world transform gives the origin; the hit
\* point of object o is the point o
CameraOrigin == 0

\* the normalized primary direction of pixel (i, j): the camera's forward
\* axis at the resolution of the lattice, and the pixel it goes through
PrimaryDir(i, j) == [v |-> Forward, px |-> <<i, j>>]

\* the direction of a secondary ray
Dir(v) == [v |-> v, px |-> << >>]

\* scene.intersect(orig, dir, ...): the index of the object hit, 0 for none
Intersect(sc, orig, dir) ==
    IF orig = CameraOrigin
    THEN sc.prim[(dir.px[1] + dir.px[2]) % 2]
    ELSE sc.next[orig][dir.v]

\* hitObject.getSurfaceProperties: the normal, the colour and the material
getSurfaceProperties(sc, o) == sc.objs[o]

(***************************************************************************)
(* castRay: frames                                                         *)
(***************************************************************************)
\* the calls a frame has made, by kind, and whether each was made in its
\* turn: the diffuse samples, the specular reflection, the refraction, the
\* reflection of the transparent term.  A frame also counts its
\* intersection queries (isect) and its random draws (draws) and lists the
\* terms it has added to hitColor (terms).
NoCalls == [diffuse |-> 0, specular |-> 0, refract |-> 0, reflect |-> 0,
            inorder |-> TRUE]

NewFrame(orig, dir, depth) ==
    [pc |-> "entry", orig |-> orig, dir |-> dir, depth |-> depth,
     obj |-> 0, hitColor |-> CZero, n |-> 0, r1 |-> 0, indirect |-> CZero,
     refractionDirection |-> Zero, refractionColor |-> CZero,
     reflectionColor |-> CZero, beforeTransparent |-> CZero,
     isect |-> 0, draws |-> 0, calls |-> NoCalls, terms |-> << >>]

Top == stack[Len(stack)]

Pop == SubSeq(stack, 1, Len(stack) - 1)

\* the transparent term entered whatever the material's flag
AfterSpecularAlways(m) == "transparent"

\* the part of castRay that follows the hit, the diffuse term, the
\* specular term
AfterSpecular(m) == IF m.transparent THEN "transparent" ELSE "return"

\* the terms chained by else: a diffuse material gets no other term
AfterDiffuseOnly(m) ==
    IF m.diffuse THEN "return"
    ELSE IF m.specular THEN "specular" ELSE AfterSpecular(m)

AfterDiffuse(m) == IF m.specular THEN "specular" ELSE AfterSpecular(m)

AfterHit(m) == IF m.diffuse THEN "diffuse" ELSE AfterDiffuse(m)

\* whether a call of the given kind comes in its turn
InTurn(c, m, kind) ==
    LET d == IF m.diffuse THEN NSamples ELSE 0
        s == IF m.specular THEN 1 ELSE 0
    IN  CASE kind = "diffuse" ->
               c.diffuse < d /\ c.specular = 0 /\ c.refract = 0 /\ c.reflect = 0
          [] kind = "specular" ->
               c.diffuse = d /\ c.specular = 0 /\ c.refract = 0 /\ c.reflect = 0
          [] kind = "refract" ->
               c.diffuse = d /\ c.specular = s /\ c.refract = 0 /\ c.reflect = 0
          [] kind = "reflect" ->
               c.diffuse = d /\ c.specular = s /\ c.refract = 1 /\ c.reflect = 0

NoteCall(c, m, kind) ==
    [c EXCEPT ![kind] = @ + 1, !.inorder = @ /\ InTurn(c, m, kind)]

\* a recursive call given the depth of its caller
ChildDepthSame(d) == d

\* the depth a recursive call made at depth d is given
ChildDepth(d) == d + 1

\* castRay(hitPoint, dir, scene, options, depth + 1) called from frame f,
\* which goes on at pc when the call returns
CallFrom(f, pc, kind, v) ==
    LET m == getSurfaceProperties(scene, f.obj).m
        caller == [f EXCEPT !.pc = pc, !.calls = NoteCall(@, m, kind)]
    IN  Append([stack EXCEPT ![Len(stack)] = caller],
               NewFrame(f.obj, Dir(v), ChildDepth(f.depth)))

\* return value: the frame is popped
Return(f, value, how) ==
    /\ stack' = Pop
    /\ ret' = value
    /\ last' = [f |-> f, ret |-> value, how |-> how]

InCastRay == rpc = "call" /\ stack # << >>

\* the depth check one level late
DepthExceededLate(f) == f.depth > options.maxDepth + 1

\* depth > options.maxDepth
DepthExceeded(f) == f.depth > options.maxDepth

\* hitColor left at the zero colour
InitialHitColorBlack == CZero

\* Vec3f hitColor = options.backgroundColor
InitialHitColor == CConst(options.backgroundColor)

\* the emissive return taken only when no other flag is set
IsLightOnly(m) ==
    m.self_luminous /\ ~m.diffuse /\ ~m.specular /\ ~m.transparent

\* m->self_luminous
IsLight(m) == m.self_luminous

(***************************************************************************)
(* castRay: one action for each step of the innermost call, each with the  *)
(* condition under which the code takes that step                          *)
(***************************************************************************)
\* the object the innermost call's intersection query reports, 0 for none
HitOf(f) == Intersect(scene, f.orig, f.dir)

\* the surface the frame has hit
Surface(f) == getSurfaceProperties(scene, f.obj)

\* the frame after Vec3f hitColor = backgroundColor and the query
AfterQuery(f, o) ==
    [f EXCEPT !.hitColor = InitialHitColor, !.isect = @ + 1, !.obj = o]

SetTop(f) == [stack EXCEPT ![Len(stack)] = f]

AtEntry == InCastRay /\ Top.pc = "entry"

\* if (depth > options.maxDepth) return options.backgroundColor;
DepthLimitGuard == AtEntry /\ DepthExceeded(Top)

DepthLimit ==
    /\ DepthLimitGuard
    /\ Return(Top, CConst(options.backgroundColor), "depth")
    /\ steps' = steps + 1
    /\ UNCHANGED << arg, res, cfg, rpc, ri, rj, pix, pixels, written, gen,
                    genAt, primary >>

\* hitColor = backgroundColor; scene.intersect(...) is false; return hitColor
MissGuard == AtEntry /\ ~DepthExceeded(Top) /\ HitOf(Top) = 0

Miss ==
    /\ MissGuard
    /\ Return(AfterQuery(Top, 0), AfterQuery(Top, 0).hitColor, "miss")
    /\ steps' = steps + 1
    /\ UNCHANGED << arg, res, cfg, rpc, ri, rj, pix, pixels, written, gen,
                    genAt, primary >>

\* the hit point is a light source: return m->ka * Color
HitEmissiveGuard ==
    /\ AtEntry
    /\ ~DepthExceeded(Top)
    /\ HitOf(Top) # 0
    /\ IsLight(getSurfaceProperties(scene, HitOf(Top)).m)

HitEmissive ==
    /\ HitEmissiveGuard
    /\ LET f == AfterQuery(Top, HitOf(Top))
       IN  Return(f, CConst(Surface(f).m.ka * Surface(f).Color), "emissive")
    /\ steps' = steps + 1
    /\ UNCHANGED << arg, res, cfg, rpc, ri, rj, pix, pixels, written, gen,
                    genAt, primary >>

\* the hit point is no light source: go on to the first term of the
\* material (Vec3f indirectLigthing = 0; n = 0 when it is diffuse)
HitSurfaceGuard ==
    /\ AtEntry
    /\ ~DepthExceeded(Top)
    /\ HitOf(Top) # 0
    /\ ~IsLight(getSurfaceProperties(scene, HitOf(Top)).m)

HitSurface ==
    /\ HitSurfaceGuard
    /\ LET f == AfterQuery(Top, HitOf(Top))
       IN  stack' = SetTop([f EXCEPT !.indirect = CZero, !.n = 0,
                                     !.pc = AfterHit(Surface(f).m)])
    /\ steps' = steps + 1
    /\ UNCHANGED << arg, res, cfg, rpc, ri, rj, pix, pixels, written, ret,
                    gen, last, genAt, primary >>

\* one turn of the sample loop: draw r1 and r2, carry the sample to the
\* world and call castRay along it
DiffuseSampleGuard == InCastRay /\ Top.pc = "diffuse" /\ Top.n < NSamples

\* a turn that draws from a copy of the generator: the process-wide one is
\* left where it was
DiffuseSampleOnCopy ==
    /\ DiffuseSampleGuard
    /\ LET d1 == Draw(gen)
           d2 == Draw(d1.gen)
           sampleWorld == SampleWorld(uniformSampleHemisphere(d1.a, d2.a),
                                      Surface(Top).normal)
           f == [Top EXCEPT !.r1 = d1.a, !.draws = @ + 2]
       IN  /\ gen' = gen
           /\ stack' = CallFrom(f, "diffuse_ret", "diffuse", sampleWorld)
    /\ steps' = steps + 1
    /\ UNCHANGED << arg, res, cfg, rpc, ri, rj, pix, pixels, written, ret,
                    last, genAt, primary >>

DiffuseSample ==
    /\ DiffuseSampleGuard
    /\ LET d1 == Draw(gen)
           d2 == Draw(d1.gen)
           sampleWorld == SampleWorld(uniformSampleHemisphere(d1.a, d2.a),
                                      Surface(Top).normal)
           f == [Top EXCEPT !.r1 = d1.a, !.draws = @ + 2]
       IN  /\ gen' = d2.gen
           /\ stack' = CallFrom(f, "diffuse_ret", "diffuse", sampleWorld)
    /\ steps' = steps + 1
    /\ UNCHANGED << arg, res, cfg, rpc, ri, rj, pix, pixels, written, ret,
                    last, genAt, primary >>

\* indirectLigthing += r1 * castRay(...) / pdf; ++n
DiffuseAccumulateGuard == InCastRay /\ Top.pc = "diffuse_ret"

DiffuseAccumulate ==
    /\ DiffuseAccumulateGuard
    /\ stack' = SetTop(
           [Top EXCEPT !.indirect =
                           CAdd(@, CMulU(CScale(Top.r1 * NSamples, ret))),
                       !.n = @ + 1,
                       !.pc = "diffuse"])
    /\ steps' = steps + 1
    /\ UNCHANGED << arg, res, cfg, rpc, ri, rj, pix, pixels, written, ret,
                    gen, last, genAt, primary >>

\* the loop is over: indirectLigthing /= N; hitColor += indirectLigthing * kd
DiffuseEndGuard == InCastRay /\ Top.pc = "diffuse" /\ Top.n >= NSamples

DiffuseEnd ==
    /\ DiffuseEndGuard
    /\ LET m == Surface(Top).m
           indirect == CDiv(Top.indirect, NSamples)
       IN  stack' = SetTop(
               [Top EXCEPT !.indirect = indirect,
                           !.hitColor = CAdd(@, CScale(m.kd, indirect)),
                           !.terms = Append(@, "diffuse"),
                           !.pc = AfterDiffuse(m)])
    /\ steps' = steps + 1
    /\ UNCHANGED << arg, res, cfg, rpc, ri, rj, pix, pixels, written, ret,
                    gen, last, genAt, primary >>

\* Reflect = reflect(dir, hitNormal).normalize(); castRay(hitPoint, Reflect)
SpecularCallGuard == InCastRay /\ Top.pc = "specular"

SpecularCall ==
    /\ SpecularCallGuard
    /\ LET Reflect == normalize(reflect(Top.dir.v, Surface(Top).normal))
       IN  stack' = CallFrom(Top, "specular_ret", "specular", Reflect)
    /\ steps' = steps + 1
    /\ UNCHANGED << arg, res, cfg, rpc, ri, rj, pix, pixels, written, ret,
                    gen, last, genAt, primary >>

\* hitColor += lightIntensity * m->ks * pow(cosineAlpha, m->ns.exponent)
SpecularAccumulateGuard == InCastRay /\ Top.pc = "specular_ret"

SpecularAccumulate ==
    /\ SpecularAccumulateGuard
    /\ LET m == Surface(Top).m
           Reflect == normalize(reflect(Top.dir.v, Surface(Top).normal))
           cosineAlpha == dotProduct(Reflect, VNeg(Top.dir.v))
       IN  stack' = SetTop(
               [Top EXCEPT !.hitColor =
                               CAdd(@, CScale(m.ks * Pow(cosineAlpha, m.ns),
                                              ret)),
                           !.terms = Append(@, "specular"),
                           !.pc = AfterSpecular(m)])
    /\ steps' = steps + 1
    /\ UNCHANGED << arg, res, cfg, rpc, ri, rj, pix, pixels, written, ret,
                    gen, last, genAt, primary >>

\* refractionDirection = refract(dir, hitNormal, ni).normalize();
\* refractionColor = castRay(hitPoint, refractionDirection, ...)
RefractCallGuard == InCastRay /\ Top.pc = "transparent"

RefractCall ==
    /\ RefractCallGuard
    /\ LET refractionDirection ==
               normalize(refract(Top.dir.v, Surface(Top).normal,
                                 Surface(Top).m.ni))
           f == [Top EXCEPT !.refractionDirection = refractionDirection,
                            !.refractionColor = CZero,
                            !.reflectionColor = CZero,
                            !.beforeTransparent = Top.hitColor]
       IN  stack' = CallFrom(f, "refract_ret", "refract", refractionDirection)
    /\ steps' = steps + 1
    /\ UNCHANGED << arg, res, cfg, rpc, ri, rj, pix, pixels, written, ret,
                    gen, last, genAt, primary >>

\* the refraction call has returned; reflectionDirection =
\* reflect(dir, hitNormal).normalize(); reflectionColor = castRay(...)
ReflectCallGuard == InCastRay /\ Top.pc = "refract_ret"

ReflectCall ==
    /\ ReflectCallGuard
    /\ LET reflectionDirection ==
               normalize(reflect(Top.dir.v, Surface(Top).normal))
           f == [Top EXCEPT !.refractionColor = ret]
       IN  stack' = CallFrom(f, "reflect_ret", "reflect", reflectionDirection)
    /\ steps' = steps + 1
    /\ UNCHANGED << arg, res, cfg, rpc, ri, rj, pix, pixels, written, ret,
                    gen, last, genAt, primary >>

\* the reflection call has returned;
\* hitColor += reflectionColor * kr + refractionColor * (1 - kr)
TransparentMixGuard == InCastRay /\ Top.pc = "reflect_ret"

TransparentMix ==
    /\ TransparentMixGuard
    /\ LET kr == Surface(Top).m.tr
       IN  stack' = SetTop(
               [Top EXCEPT !.reflectionColor = ret,
                           !.hitColor =
                               CAdd(@, CAdd(CScale(kr, ret),
                                            CScale(1 - kr, Top.refractionColor))),
                           !.terms = Append(@, "transparent"),
                           !.pc = "return"])
    /\ steps' = steps + 1
    /\ UNCHANGED << arg, res, cfg, rpc, ri, rj, pix, pixels, written, ret,
                    gen, last, genAt, primary >>

\* return hitColor
FinishGuard == InCastRay /\ Top.pc = "return"

Finish ==
    /\ FinishGuard
    /\ Return(Top, Top.hitColor, "shaded")
    /\ steps' = steps + 1
    /\ UNCHANGED << arg, res, cfg, rpc, ri, rj, pix, pixels, written, gen,
                    genAt, primary >>

(***************************************************************************)
(* render                                                                  *)
(***************************************************************************)
\* the body of the inner loop up to the call: castRay(orig, dir, ..., 0)
RenderPixelGuard ==
    rpc = "loop" /\ rj < options.height /\ ri < options.width

RenderPixel ==
    /\ RenderPixelGuard
    /\ stack' = << NewFrame(CameraOrigin, PrimaryDir(ri, rj), 0) >>
    /\ rpc' = "call"
    /\ genAt' = [genAt EXCEPT ![pix] = gen]
    /\ primary' = Append(primary, <<ri, rj, 0, CameraOrigin>>)
    /\ steps' = steps + 1
    /\ UNCHANGED << arg, res, cfg, ri, rj, pix, pixels, written, ret, gen,
                    last >>

\* castRay has returned: *pixels++ = its value; ++i
RenderStoreGuard == rpc = "call" /\ stack = << >>

\* a store that does not advance the buffer pointer: *pixels = its value
RenderStoreInPlace ==
    /\ RenderStoreGuard
    /\ pixels' = [pixels EXCEPT ![pix] = ret]
    /\ written' = [written EXCEPT ![pix] = @ + 1]
    /\ pix' = pix
    /\ ri' = ri + 1
    /\ rpc' = "loop"
    /\ steps' = steps + 1
    /\ UNCHANGED << arg, res, cfg, rj, stack, ret, gen, last, genAt, primary >>

RenderStore ==
    /\ RenderStoreGuard
    /\ pixels' = [pixels EXCEPT ![pix] = ret]
    /\ written' = [written EXCEPT ![pix] = @ + 1]
    /\ pix' = pix + 1
    /\ ri' = ri + 1
    /\ rpc' = "loop"
    /\ steps' = steps + 1
    /\ UNCHANGED << arg, res, cfg, rj, stack, ret, gen, last, genAt, primary >>

\* the inner loop ends: ++j, i = 0
RenderNextRowGuard ==
    rpc = "loop" /\ rj < options.height /\ ri >= options.width

RenderNextRow ==
    /\ RenderNextRowGuard
    /\ ri' = 0
    /\ rj' = rj + 1
    /\ steps' = steps + 1
    /\ UNCHANGED << arg, res, cfg, rpc, pix, pixels, written, stack, ret, gen,
                    last, genAt, primary >>

\* the outer loop ends: render returns
RenderReturnGuard == rpc = "loop" /\ rj >= options.height

RenderReturn ==
    /\ RenderReturnGuard
    /\ rpc' = "done"
    /\ steps' = steps + 1
    /\ UNCHANGED << arg, res, cfg, ri, rj, pix, pixels, written, stack, ret,
                    gen, last, genAt, primary >>

\* some step of render or castRay can be taken
CanStep ==
    \/ RenderPixelGuard \/ RenderStoreGuard \/ RenderNextRowGuard
    \/ RenderReturnGuard
    \/ DepthLimitGuard \/ MissGuard \/ HitEmissiveGuard \/ HitSurfaceGuard
    \/ DiffuseSampleGuard \/ DiffuseAccumulateGuard \/ DiffuseEndGuard
    \/ SpecularCallGuard \/ SpecularAccumulateGuard
    \/ RefractCallGuard \/ ReflectCallGuard \/ TransparentMixGuard
    \/ FinishGuard

(***************************************************************************)
(* castRay as a function: the colour a call returns and the state it       *)
(* leaves the generator in, from its arguments and the generator's state   *)
(* when it starts                                                          *)
(***************************************************************************)
\* a call castRay(orig, dir, scene, options, depth) made when the
\* generator is in state g
Call(orig, dir, depth, g) ==
    [orig |-> orig, dir |-> dir, depth |-> depth, gen |-> g]

\* the value of b, a being evaluated first: the statements of the code
\* run in their order
After(a, b) == << a, b >>[2]

RECURSIVE CastRayEval(_)
RECURSIVE DiffuseEval(_, _, _, _, _)
\* the turns lo .. hi - 1 of the sample loop, entered with
\* st = [color |-> indirectLigthing, gen |-> the generator's state]; the
\* range is split in halves, the first evaluated before the second, so
\* that the evaluation nests to a depth logarithmic in the number of samples
DiffuseEval(o, depth, lo, hi, st) ==
    IF hi <= lo
    THEN st
    ELSE IF hi = lo + 1
    THEN LET d1 == Draw(st.gen)
             d2 == Draw(d1.gen)
             sampleWorld ==
                 SampleWorld(uniformSampleHemisphere(d1.a, d2.a),
                             getSurfaceProperties(scene, o).normal)
             c == CastRayEval(Call(o, Dir(sampleWorld), depth + 1, d2.gen))
         IN  [gen |-> c.gen,
              color |-> CAdd(st.color,
                             CMulU(CScale(d1.a * NSamples, c.color)))]
    ELSE LET mid == (lo + hi) \div 2
             half == DiffuseEval(o, depth, lo, mid, st)
         IN  After(half, DiffuseEval(o, depth, mid, hi, half))

CastRayEval(call) ==
    IF call.depth > options.maxDepth
    THEN [color |-> CConst(options.backgroundColor), gen |-> call.gen]
    ELSE
    LET o == Intersect(scene, call.orig, call.dir)
    IN  IF o = 0
        THEN [color |-> CConst(options.backgroundColor), gen |-> call.gen]
        ELSE
        LET sp == getSurfaceProperties(scene, o)
            m == sp.m
            dir == call.dir.v
            depth == call.depth
        IN  IF m.self_luminous
            THEN [color |-> CConst(m.ka * sp.Color), gen |-> call.gen]
            ELSE
            LET mirror == normalize(reflect(dir, sp.normal))
                d == IF m.diffuse
                     THEN DiffuseEval(o, depth, 0, NSamples,
                                      [color |-> CZero, gen |-> call.gen])
                     ELSE [color |-> CZero, gen |-> call.gen]
                c1 == IF m.diffuse
                      THEN CAdd(CConst(options.backgroundColor),
                                CScale(m.kd, CDiv(d.color, NSamples)))
                      ELSE CConst(options.backgroundColor)
                s == IF m.specular
                     THEN CastRayEval(Call(o, Dir(mirror), depth + 1, d.gen))
                     ELSE [color |-> CZero, gen |-> d.gen]
                c2 == IF m.specular
                      THEN CAdd(c1,
                                CScale(m.ks * Pow(dotProduct(mirror, VNeg(dir)),
                                                  m.ns),
                                       s.color))
                      ELSE c1
                refr == IF m.transparent
                        THEN CastRayEval(
                                 Call(o,
                                      Dir(normalize(refract(dir, sp.normal,
                                                            m.ni))),
                                      depth + 1, s.gen))
                        ELSE [color |-> CZero, gen |-> s.gen]
                refl == IF m.transparent
                        THEN CastRayEval(
                                 Call(o, Dir(mirror), depth + 1, refr.gen))
                        ELSE [color |-> CZero, gen |-> refr.gen]
                c3 == IF m.transparent
                      THEN CAdd(c2, CAdd(CScale(m.tr, refl.color),
                                         CScale(1 - m.tr, refr.color)))
                      ELSE c2
            IN  [gen |-> refl.gen, color |-> c3]

\* the colour castRay returns for the primary ray of the pixel in slot s
\* when the generator is in state g
PixelColor(s, g) ==
    CastRayEval(Call(CameraOrigin,
                     PrimaryDir(s % options.width, s \div options.width),
                     0, g)).color

(***************************************************************************)
(* The specification                                                       *)
(***************************************************************************)
NoCall == [f |-> NewFrame(CameraOrigin, Dir(Zero), 0), ret |-> CZero,
           how |-> "none"]

NoNormal == SVec(Zero, 0)

NoBasis == [done |-> FALSE, Nt |-> NoNormal, Nb |-> NoNormal]

\* the state in which render is entered
RenderEntry ==
    /\ rpc = "loop"
    /\ ri = 0
    /\ rj = 0
    /\ pix = 0
    /\ pixels = [s \in 0..(cfg.options.width * cfg.options.height) |-> CZero]
    /\ written = [s \in 0..(cfg.options.width * cfg.options.height) |-> 0]
    /\ stack = << >>
    /\ ret = CZero
    /\ gen = GenSeed
    /\ last = NoCall
    /\ genAt = [s \in 0..(cfg.options.width * cfg.options.height) |-> GenSeed]
    /\ primary = << >>
    /\ steps = 0

Init ==
    /\ cfg \in Configs
    /\ RenderEntry
    /\ arg = NoNormal
    /\ res = NoBasis

Next ==
    \/ RenderPixel
    \/ RenderStore
    \/ RenderNextRow
    \/ RenderReturn
    \/ DepthLimit
    \/ Miss
    \/ HitEmissive
    \/ HitSurface
    \/ DiffuseSample
    \/ DiffuseAccumulate
    \/ DiffuseEnd
    \/ SpecularCall
    \/ SpecularAccumulate
    \/ RefractCall
    \/ ReflectCall
    \/ TransparentMix
    \/ Finish

Spec == Init /\ [][Next]_vars

(***************************************************************************)
(* createCoordinateSystem on its own, on every unit normal whose direction *)
(* has integer coordinates of magnitude at most MaxCoord                   *)
(***************************************************************************)
MaxCoord == 2

UnitNormals ==
    { UnitOf(Vec3(x, y, z)) :
        <<x, y, z>> \in { w \in (-MaxCoord..MaxCoord) \X (-MaxCoord..MaxCoord)
                                  \X (-MaxCoord..MaxCoord) : w # Zero } }

InitBasis ==
    /\ cfg = [scene |-> SceneEmpty, options |-> Options(1, 1, 0, 1)]
    /\ RenderEntry
    /\ arg \in UnitNormals
    /\ res = NoBasis

ApplyBasis ==
    /\ ~res.done
    /\ arg # NoNormal
    /\ res' = [done |-> TRUE,
               Nt |-> createCoordinateSystem(arg).Nt,
               Nb |-> createCoordinateSystem(arg).Nb]
    /\ UNCHANGED << cfg, rpc, ri, rj, pix, pixels, written, stack, ret, gen,
                    last, genAt, primary, steps, arg >>

NextBasis == ApplyBasis

SpecBasis == InitBasis /\ [][NextBasis]_vars

(***************************************************************************)
(* Properties                                                              *)
(***************************************************************************)
Background == CConst(options.backgroundColor)

Returned == last.how # "none"

\* the material of the object the last returned call hit
LastMaterial == getSurfaceProperties(scene, last.f.obj).m

Flag(b) == IF b THEN 1 ELSE 0

\* C1: a castRay call whose depth exceeds options.maxDepth returns exactly
\* options.backgroundColor, whatever the scene and the ray, and has made no
\* intersection query, no random draw and no recursive call; while it is on
\* the stack it is the innermost call, still at its entry.
C1_DepthTermination ==
    /\ (Returned /\ last.f.depth > options.maxDepth) =>
           /\ last.ret = Background
           /\ last.f.isect = 0
           /\ last.f.draws = 0
           /\ last.f.calls = NoCalls
    /\ \A k \in 1..Len(stack) :
           stack[k].depth > options.maxDepth =>
               /\ k = Len(stack)
               /\ stack[k].pc = "entry"
               /\ stack[k].isect = 0
               /\ stack[k].draws = 0

\* a call at depth maxDepth+1 has returned in a scene where its ray would
\* have hit a surface
C1_Witness ==
    /\ Returned
    /\ last.f.depth = options.maxDepth + 1
    /\ last.f.depth > 0
    /\ Intersect(scene, last.f.orig, last.f.dir) # 0

\* C3: a call that hits an object whose material is self_luminous returns
\* exactly ka*Color and has made no recursive call and no random draw,
\* whichever of the diffuse, specular and transparent flags are set too; no
\* call goes on past such a hit.
C3_EmissiveShortCircuit ==
    /\ (Returned /\ last.f.obj # 0 /\ LastMaterial.self_luminous) =>
           /\ last.ret =
                  CConst(LastMaterial.ka
                             * getSurfaceProperties(scene, last.f.obj).Color)
           /\ last.f.calls = NoCalls
           /\ last.f.draws = 0
    /\ (Returned /\ ~DepthExceeded(last.f)
          /\ Intersect(scene, last.f.orig, last.f.dir) # 0) =>
           last.f.obj = Intersect(scene, last.f.orig, last.f.dir)
    /\ \A k \in 1..Len(stack) :
           stack[k].obj # 0 =>
               ~getSurfaceProperties(scene, stack[k].obj).m.self_luminous

\* a call has returned from a hit on the light source whose material is
\* diffuse, specular and transparent as well
C3_Witness ==
    /\ Returned
    /\ last.f.obj # 0
    /\ LastMaterial.self_luminous
    /\ LastMaterial.diffuse /\ LastMaterial.specular /\ LastMaterial.transparent
    /\ last.ret # Background

\* C4: a call (at depth <= maxDepth) whose intersection query reports no
\* hit returns exactly options.backgroundColor after that one query, with
\* no recursive call and no random draw.
C4_Miss ==
    (Returned /\ ~DepthExceeded(last.f)
       /\ Intersect(scene, last.f.orig, last.f.dir) = 0) =>
        /\ last.ret = Background
        /\ last.f.isect = 1
        /\ last.f.calls = NoCalls
        /\ last.f.draws = 0

\* a primary ray has missed in the empty scene
C4_Witness ==
    /\ Returned
    /\ last.how = "miss"
    /\ scene = SceneEmpty
    /\ last.f.depth = 0
    /\ options.maxDepth >= 0

\* C7: hitColor starts at options.backgroundColor and gains a term only
\* for an aspect that is set: a call that hits a material with none of
\* self_luminous, diffuse, specular, transparent set returns exactly
\* options.backgroundColor, has added no term and made no recursive call;
\* and no call adds the term of, or recurses for, an aspect that is unset.
C7_NoAspect ==
    (Returned /\ last.f.obj # 0 /\ ~LastMaterial.self_luminous) =>
        /\ (~LastMaterial.diffuse /\ ~LastMaterial.specular
              /\ ~LastMaterial.transparent) =>
               /\ last.ret = Background
               /\ last.f.terms = << >>
               /\ last.f.calls = NoCalls
        /\ ~LastMaterial.diffuse => last.f.calls.diffuse = 0
        /\ ~LastMaterial.specular => last.f.calls.specular = 0
        /\ ~LastMaterial.transparent =>
               last.f.calls.refract = 0 /\ last.f.calls.reflect = 0

\* a call has returned from a hit on the material with no flag set
C7_Witness ==
    /\ Returned
    /\ last.f.obj # 0
    /\ ~LastMaterial.self_luminous /\ ~LastMaterial.diffuse
    /\ ~LastMaterial.specular /\ ~LastMaterial.transparent
    /\ last.how = "shaded"

\* the terms a material adds, in the order of the code
TermsOf(m) ==
    (IF m.diffuse THEN << "diffuse" >> ELSE << >>)
        \o (IF m.specular THEN << "specular" >> ELSE << >>)
        \o (IF m.transparent THEN << "transparent" >> ELSE << >>)

\* C9: a call that hits a non-emissive material makes exactly
\* 128*[diffuse] + 1*[specular] + 2*[transparent] direct recursive calls,
\* each at depth+1, in the order diffuse samples, specular reflection,
\* refraction, reflection; the flags are not exclusive (131 calls when all
\* three are set) and the term of every set flag is added to the colour.
C9_CallCount ==
    /\ (Returned /\ last.f.obj # 0 /\ ~LastMaterial.self_luminous) =>
           /\ last.f.calls.diffuse = 128 * Flag(LastMaterial.diffuse)
           /\ last.f.calls.specular = Flag(LastMaterial.specular)
           /\ last.f.calls.refract = Flag(LastMaterial.transparent)
           /\ last.f.calls.reflect = Flag(LastMaterial.transparent)
           /\ last.f.calls.inorder
           /\ last.f.terms = TermsOf(LastMaterial)
    /\ \A k \in 1..Len(stack) :
           /\ stack[k].calls.inorder
           /\ k > 1 => stack[k].depth = stack[k - 1].depth + 1

\* a call has returned from a hit on the diffuse, specular and transparent
\* material, after 131 calls
C9_Witness ==
    /\ Returned
    /\ last.how = "shaded"
    /\ LastMaterial.diffuse /\ LastMaterial.specular /\ LastMaterial.transparent
    /\ last.f.calls.diffuse + last.f.calls.specular + last.f.calls.refract
           + last.f.calls.reflect = 131
    /\ last.f.terms = << "diffuse", "specular", "transparent" >>

\* the pixel (i, j) that slot s holds in row-major order
PixelOf(s) == << s % options.width, s \div options.width >>

\* C5: render calls castRay once per pixel, width*height times in all,
\* each call at depth 0 from the camera origin, in row-major order (rows j
\* outside, columns i inside), and stores the result of pixel (i, j) in
\* slot j*width + i; every slot of the buffer is written exactly once, in
\* order, and none outside it.
C5_RenderOrder ==
    /\ Len(primary) <= options.width * options.height
    /\ \A k \in 1..Len(primary) :
           primary[k] = << PixelOf(k - 1)[1], PixelOf(k - 1)[2], 0, CameraOrigin >>
    /\ pix = Len(primary) - Flag(rpc = "call")
    /\ \A s \in DOMAIN written :
           written[s] = Flag(s < pix /\ s \in Slots)
    /\ rpc = "call" =>
           /\ pix = rj * options.width + ri
           /\ stack # << >> =>
                  /\ stack[1].depth = 0
                  /\ stack[1].orig = CameraOrigin
                  /\ stack[1].dir = PrimaryDir(ri, rj)
    /\ (rpc = "loop" /\ pix > 0) =>
           /\ pixels[pix - 1] = last.ret
           /\ last.f.depth = 0
           /\ last.f.dir = PrimaryDir(PixelOf(pix - 1)[1], PixelOf(pix - 1)[2])
    /\ rpc = "done" =>
           /\ Len(primary) = options.width * options.height
           /\ pix = options.width * options.height
           /\ \A s \in Slots : written[s] = 1

\* render has returned from an image of more than one row and more than
\* one column
C5_Witness ==
    /\ rpc = "done"
    /\ options.width > 1
    /\ options.height > 1
    /\ Len(primary) = options.width * options.height

\* C10: refract returns the zero vector whenever k < 0, and castRay does
\* not treat that case apart: on every transparent hit it makes the
\* refraction call, along the zero direction when k < 0, and then the
\* reflection call, and adds reflectionColor*kr + refractionColor*(1-kr),
\* the two colours being what the two calls returned.
C10_TotalInternalReflection ==
    /\ \A k \in 1..Len(stack) :
           LET f == stack[k]
               sp == getSurfaceProperties(scene, f.obj)
           IN  /\ f.pc = "refract_ret" =>
                      /\ RefractK(f.dir.v, sp.normal, sp.m.ni) < 0 =>
                             f.refractionDirection = Zero
                      /\ k < Len(stack) =>
                             /\ stack[k + 1].dir = Dir(f.refractionDirection)
                             /\ stack[k + 1].orig = f.obj
                      /\ k = Len(stack) =>
                             /\ last.f.dir = Dir(f.refractionDirection)
                             /\ last.f.depth = f.depth + 1
                             /\ ret = last.ret
               /\ f.pc = "reflect_ret" =>
                      /\ k < Len(stack) =>
                             stack[k + 1].dir =
                                 Dir(normalize(reflect(f.dir.v, sp.normal)))
                      /\ k = Len(stack) =>
                             /\ last.f.dir =
                                    Dir(normalize(reflect(f.dir.v, sp.normal)))
                             /\ last.f.depth = f.depth + 1
                             /\ ret = last.ret
               /\ (f.pc = "return" /\ sp.m.transparent) =>
                      /\ f.calls.refract = 1
                      /\ f.calls.reflect = 1
                      /\ f.hitColor =
                             CAdd(f.beforeTransparent,
                                  CAdd(CScale(sp.m.tr, f.reflectionColor),
                                       CScale(1 - sp.m.tr, f.refractionColor)))

\* a transparent hit with k < 0 has made both calls, the first along the
\* zero direction, which returned a colour other than the background, and
\* has mixed the two colours
C10_Witness ==
    /\ stack # << >>
    /\ Top.pc = "return"
    /\ getSurfaceProperties(scene, Top.obj).m.transparent
    /\ RefractK(Top.dir.v, getSurfaceProperties(scene, Top.obj).normal,
                getSurfaceProperties(scene, Top.obj).m.ni) < 0
    /\ Top.refractionDirection = Zero
    /\ Top.refractionColor # Background
    /\ Top.refractionColor # Top.reflectionColor

\* the shape of the call stack: the outermost call is at depth 0, every
\* call is one deeper than its caller, none is deeper than maxDepth + 1,
\* and a call deeper than maxDepth makes no call (it is innermost, at its
\* entry)
C2_StackShape ==
    \A k \in 1..Len(stack) :
        /\ stack[k].depth = k - 1
        /\ stack[k].depth <= options.maxDepth + 1
        /\ DepthExceeded(stack[k]) => (k = Len(stack) /\ stack[k].pc = "entry")

\* the steps one castRay call takes at most: its entry, two for each
\* sample, the end of the diffuse term, two for the specular term, three
\* for the transparent term, its return
StepsPerCall == 2 * NSamples + 8

RECURSIVE CallBound(_, _)
\* the castRay calls a call at depth d can amount to, itself included
CallBound(d, maxDepth) ==
    IF d > maxDepth THEN 1 ELSE 1 + (NSamples + 3) * CallBound(d + 1, maxDepth)

\* the steps a render takes at most: for each pixel the call, its castRay
\* calls and the store; the end of each row; the return
StepBound ==
    options.width * options.height
        * (2 + StepsPerCall * CallBound(0, options.maxDepth))
      + options.height + 1

\* C2: for every options.maxDepth and scene, the room where every ray hits
\* a diffuse, specular and transparent surface included, a castRay call
\* started at depth 0 returns: every recursive call passes depth + 1, a
\* call with depth > maxDepth makes none, no call runs at a depth greater
\* than maxDepth + 1, the number of steps taken stays under a bound that
\* maxDepth fixes (each step counts), and a step can be taken as long as
\* render has not returned.
C2_Terminates ==
    /\ C2_StackShape
    /\ steps <= StepBound
    /\ rpc = "done" \/ CanStep
    /\ rpc = "done" => stack = << >>

\* in the room, with maxDepth = 1, a call runs at depth maxDepth + 1
C2_Witness ==
    /\ scene = SceneRoom
    /\ options.maxDepth = 1
    /\ Len(stack) = 3
    /\ Top.depth = 2
    /\ stack[1].calls.diffuse = NSamples /\ stack[1].calls.specular = 1

\* C8: for every unit normal N, the axes and their negations included,
\* createCoordinateSystem divides by a strictly positive number in the
\* branch that |N.x| > |N.y| selects, and Nt and Nb are of unit length and
\* orthogonal to N and to each other, with Nb = N x Nt.
C8_Orthonormal ==
    res.done =>
        /\ SIsUnit(arg)
        /\ BasisDenominator(arg).num > 0
        /\ BasisDenominator(arg).den > 0
        /\ SIsUnit(res.Nt)
        /\ SIsUnit(res.Nb)
        /\ SOrthogonal(arg, res.Nt)
        /\ SOrthogonal(arg, res.Nb)
        /\ SOrthogonal(res.Nt, res.Nb)
        /\ SEqual(res.Nb, SCross(arg, res.Nt))

\* the basis of the normal (0, 1, 0), which takes the second branch with
\* N.x = N.z = 0, has been built
C8_Witness ==
    /\ res.done
    /\ arg = UnitOf(Vec3(0, 1, 0))
    /\ ~BasisBranchX(arg)
    /\ res.Nt.v = Vec3(0, 0, 1)

\* C6 as stated: the colour written for a pixel depends on nothing but
\* the pixel's primary ray, the scene and the options, so it is the colour
\* the pixel gets when it is rendered alone (by a process whose generator
\* is in its initial state), diffuse hits included.
C6_PixelIndependent ==
    rpc = "done" => \A s \in Slots : pixels[s] = PixelColor(s, GenSeed)

\* C6 as amended: the colour written for a pixel is determined by the
\* pixel's primary ray, the scene, the options and the state the
\* process-wide generator is in when the pixel's castRay call starts; so
\* it is the colour the pixel gets alone if the generator is in its
\* initial state then, as when no earlier ray has hit a diffuse surface.
C6_PixelDependsOnGenerator ==
    rpc = "done" =>
        \A s \in Slots :
            /\ pixels[s] = PixelColor(s, genAt[s])
            /\ genAt[s] = GenSeed => pixels[s] = PixelColor(s, GenSeed)

\* a render is over in which a pixel whose ray hits a diffuse surface was
\* rendered after the generator had been drawn from
C6_Witness ==
    /\ rpc = "done"
    /\ \E s \in Slots :
           /\ genAt[s] # GenSeed
           /\ Intersect(scene, CameraOrigin,
                        PrimaryDir(PixelOf(s)[1], PixelOf(s)[2])) # 0
           /\ getSurfaceProperties(
                  scene,
                  Intersect(scene, CameraOrigin,
                            PrimaryDir(PixelOf(s)[1], PixelOf(s)[2]))).m.diffuse
           /\ pixels[s] # Background

====
